---- MODULE Spec2Model ----
(***************************************************************************)
(* Model of SubmitJobs (src/unnamed/part_000): submission of z/OS batch    *)
(* jobs, the notify-on-completion wrappers and checkSubmitOptions.         *)
(* One invocation of one public entry point runs per behaviour; every      *)
(* await of a remote call is one step.  The remote system (z/OSMF) is the  *)
(* environment: each remote call is answered nondeterministically.         *)
(***************************************************************************)
EXTENDS Integers, Sequences, FiniteSets, TLC

\* ------------------------------------------------------------- bounds
\* largest parms.maxAttempts a caller passes
MaxAttempts == 2
\* status queries explored for a poll loop that was given no maxAttempts
MaxPolls == 3
\* largest number of spool files the remote system enumerates for a job
MaxSpool == 2
\* properties queries one processCmd invocation is followed through
MaxQueries == 2
\* characters of output one remote command writes, and the longest chunk of them
MaxOutput == 3
MaxChunkLen == 2

\* ------------------------------------------------------ JavaScript values
Undefined == "<undefined>"
Null == "<null>"

\* util.isNullOrUndefined / `x == null`
isNullOrUndefined(v) == v = Undefined \/ v = Null

\* JavaScript truthiness of a string-valued option used in `if (parms.x)`
Truthy(v) == v # Undefined /\ v # Null /\ v # ""

\* an optional number: <<>> when the caller leaves it out, <<n>> otherwise
NoNumber == <<>>
Num(n) == <<n>>

\* ------------------------------------------------------------ job status
JOB_STATUS == {"INPUT", "ACTIVE", "OUTPUT"}

\* MonitorJobs.DEFAULT_STATUS, the target assumed when none is given
DEFAULT_STATUS == "OUTPUT"

\* TaskProgress.THIRTY_PERCENT / SEVENTY_PERCENT
THIRTY_PERCENT == 30
SEVENTY_PERCENT == 70

\* ------------------------------------------------------------ input sets
JclValues == {Undefined, Null, "", "//JOB1 JOB"}
DataSetValues == {Undefined, Null, "HLQ.JCL(JOB1)"}
RecfmValues == {Undefined, "", "V"}
LreclValues == {Undefined, "", "133"}
StatusValues == {Undefined, "ACTIVE", "OUTPUT"}
WatchDelayValues == {NoNumber, Num(5)}
DirectoryValues == {Undefined, "", "./output"}
ExtensionValues == {Undefined, "txt"}
MaxAttemptsValues == {NoNumber} \cup {Num(n) : n \in 1 .. MaxAttempts}

\* ISubmitJclParms / ISubmitJclNotifyParm / ISubmitJobParms / ISubmitJobNotifyParm
NoSubmitParms ==
    [jcl |-> Undefined, jobDataSet |-> Undefined,
     internalReaderRecfm |-> Undefined, internalReaderLrecl |-> Undefined,
     status |-> Undefined, watchDelay |-> NoNumber]

\* ISubmitParms, the options of submitJclString / checkSubmitOptions
NoOptions ==
    [waitForActive |-> FALSE, viewAllSpoolContent |-> FALSE,
     waitForOutput |-> FALSE, directory |-> Undefined, extension |-> Undefined,
     task |-> FALSE, maxAttempts |-> NoNumber, watchDelay |-> NoNumber]

\* the extension is read only in the directory branch: it is varied only there
OptionValues ==
    { [waitForActive |-> a, viewAllSpoolContent |-> v, waitForOutput |-> o,
       directory |-> d, extension |-> e, task |-> t,
       maxAttempts |-> m, watchDelay |-> w] :
         a \in BOOLEAN, v \in BOOLEAN, o \in BOOLEAN, d \in DirectoryValues,
         e \in ExtensionValues, t \in BOOLEAN,
         m \in MaxAttemptsValues, w \in WatchDelayValues }

\* IJob documents the intake endpoint answers with (status INPUT on intake)
IJob(name, id, st, rc) == [jobname |-> name, jobid |-> id, status |-> st, retcode |-> rc]

SubmitResponses ==
    { IJob(n, i, "INPUT", Null) : n \in {Undefined, "JOB1"}, i \in {Undefined, "JOB00001"} }

NoJob == IJob(Undefined, Undefined, Undefined, Undefined)

\* ------------------------------------------------------------------ state
VARIABLES
    pc,               \* position of the running invocation
    op,               \* the public entry point that was invoked
    submitParms,      \* the submit parms object built by / given to the entry point
    parms,            \* ISubmitParms (submitJclString, checkSubmitOptions)
    responseJobInfo,  \* the job document the intake endpoint returned
    waitParms,        \* parms of each MonitorJobs.waitForStatusCommon invocation
    attempts,         \* status queries made by the running poll loop
    job,              \* the snapshot the poll loop resolved with
    spoolFiles,       \* descriptors returned by GetJobs.getSpoolFilesForJob
    arrOfSpoolFile,   \* the ISpoolFile list being built
    task,             \* parms.task, the progress sink (untouched when none is supplied)
    request,          \* the intake request built for ZosmfRestClient.putExpectJSON
    calls,            \* every remote call issued so far, in order, with its answer
    result            \* what the entry point's promise settled with

\* StartCommonHandler (Start.common.handler.ts): processCmd invocations on one handler
VARIABLES
    thisArguments,    \* this.arguments: the invocation whose arguments object it refers to
    params,           \* params.arguments of each invocation
    wpc,              \* position of each invocation
    inflight,         \* the remote call each invocation awaits, as it was issued
    wcalls,           \* the remote calls of each invocation that settled, with their answers
    dataObj,          \* what each invocation wrote with params.response.data.setObj
    console,          \* what each invocation wrote with params.response.console.log
    thrown            \* what each invocation's promise rejected with

\* Shell.executeSsh / Shell.executeSshCwd, as the system test drives them
VARIABLES
    shpc,             \* position of the execution
    command,          \* the command line sent to the remote system
    remoteOut,        \* everything the remote command has written so far
    channel,          \* events of the SSH channel not yet delivered to the client
    sinkCalls,        \* the data each call of the sink callback was given, in order
    stdoutData        \* the test's sink: `stdoutData += data`

submitVars == <<pc, op, submitParms, parms, responseJobInfo, waitParms, attempts, job,
                spoolFiles, arrOfSpoolFile, task, request, calls, result>>

workflowVars == <<thisArguments, params, wpc, inflight, wcalls, dataObj, console, thrown>>

shellVars == <<shpc, command, remoteOut, channel, sinkCalls, stdoutData>>

vars == <<submitVars, workflowVars, shellVars>>

\* a fresh ITaskWithStatus
NoProgress == [statusMessage |-> <<>>, percentComplete |-> 0]

NoRequest == [resource |-> Undefined, headers |-> <<>>, body |-> Undefined]

Pending == [kind |-> "pending", value |-> Undefined]
Resolved(kind, v) == [kind |-> kind, value |-> v]
Rejected(e) == [kind |-> "error", value |-> e]

\* the processCmd invocations that may run on the one handler object
Invocations == {"A", "B"}

\* no job has been submitted
SubmitIdle ==
    /\ pc = "idle"
    /\ op = Undefined
    /\ submitParms = NoSubmitParms
    /\ parms = NoOptions
    /\ responseJobInfo = NoJob
    /\ waitParms = <<>>
    /\ attempts = 0
    /\ job = NoJob
    /\ spoolFiles = <<>>
    /\ arrOfSpoolFile = <<>>
    /\ task = NoProgress
    /\ request = NoRequest
    /\ calls = <<>>
    /\ result = Pending

\* an optional boolean argument (performOneStep may be left out)
NoBoolean == <<>>
Bool(b) == <<b>>

WorkflowKeys == {"key1", "key2"}
RemoteErrors == {<<"Error: connect ETIMEDOUT">>, <<"Error: HTTP 500">>}

\* params.arguments of `zos-workflows start`
ArgumentValues ==
    [workflowKey : WorkflowKeys, wait : BOOLEAN,
     performOneStep : {NoBoolean, Bool(TRUE)},
     resolveConflict : {"outputFileValue"}, stepName : {Undefined}]

NoArguments ==
    [workflowKey |-> Undefined, wait |-> FALSE, performOneStep |-> NoBoolean,
     resolveConflict |-> Undefined, stepName |-> Undefined]

\* IWorkflowInfo, as far as processCmd reads it: automationStatus may be missing
AutomationStatusValues ==
    {<<>>} \cup {<<[currentStepName |-> n]>> : n \in {Undefined, Null, "step1"}}
WorkflowInfos ==
    [automationStatus : AutomationStatusValues, statusName : {"complete", "failed"}]

NoCall == [api |-> Undefined, req |-> NoArguments]

\* no processCmd invocation has begun
WorkflowIdle ==
    /\ thisArguments = Undefined
    /\ params = [i \in Invocations |-> NoArguments]
    /\ wpc = [i \in Invocations |-> "idle"]
    /\ inflight = [i \in Invocations |-> NoCall]
    /\ wcalls = [i \in Invocations |-> <<>>]
    /\ dataObj = [i \in Invocations |-> <<>>]
    /\ console = [i \in Invocations |-> <<>>]
    /\ thrown = [i \in Invocations |-> <<>>]

\* the characters remote output is made of, and the chunks it arrives in
Characters == {"a", "b"}
Chunks == UNION {[1 .. n -> Characters] : n \in 1 .. MaxChunkLen}

NoCommand == [command |-> Undefined, cwd |-> Undefined]

\* no remote command has been executed
ShellIdle ==
    /\ shpc = "idle"
    /\ command = NoCommand
    /\ remoteOut = <<>>
    /\ channel = <<>>
    /\ sinkCalls = <<>>
    /\ stdoutData = <<>>

Init == SubmitIdle /\ WorkflowIdle /\ ShellIdle

\* ----------------------------------------------------------------- errors
\* ImperativeExpect failures (ImperativeError): a required input is absent
MissingParameter(what) == [error |-> "MissingParameter", from |-> what]
\* a transport/HTTP failure of a remote call
RemoteCallFailure(api) == [error |-> "RemoteCallFailure", from |-> api]
\* the poll loop ran out of attempts
MaxAttemptsExceeded == [error |-> "MaxAttemptsExceeded", from |-> "waitForStatusCommon"]

\* ImperativeExpect.keysToBeDefined(obj, keys, msg)
keysToBeDefined(obj, keys) == \A k \in keys : ~isNullOrUndefined(obj[k])

\* one remote call and its answer
Answered(api, req, res) == [api |-> api, req |-> req, ok |-> TRUE, res |-> res]
Failed(api, req) == [api |-> api, req |-> req, ok |-> FALSE, res |-> Undefined]

CallsTo(api) == SelectSeq(calls, LAMBDA c : c.api = api)

\* ------------------------------------------------------------- submission
RESOURCE == "/zosmf/restjobs/jobs"

\* submitJobCommon: the JSON request for a job in a data set
JobRequest(p) ==
    [resource |-> RESOURCE,
     headers |-> << <<"Content-Type", "application/json">> >>,
     body |-> <<"//'", p.jobDataSet, "'">>]

\* mutant: the record length override taken only when a record format is given too
LreclHeader_WithRecfmOnly(p) ==
    IF Truthy(p.internalReaderLrecl) /\ Truthy(p.internalReaderRecfm)
    THEN <<"X-IBM-Intrdr-Lrecl", p.internalReaderLrecl>>
    ELSE <<"X-IBM-Intrdr-Lrecl", "80">>

\* submitJclCommon: the record length header
LreclHeader(p) ==
    IF Truthy(p.internalReaderLrecl)
    THEN <<"X-IBM-Intrdr-Lrecl", p.internalReaderLrecl>>
    ELSE <<"X-IBM-Intrdr-Lrecl", "80">>

\* submitJclCommon: the record format header
RecfmHeader(p) ==
    IF Truthy(p.internalReaderRecfm)
    THEN <<"X-IBM-Intrdr-Recfm", p.internalReaderRecfm>>
    ELSE <<"X-IBM-Intrdr-Recfm", "F">>

\* submitJclCommon: the text request for literal JCL
JclRequest(p) ==
    [resource |-> RESOURCE,
     headers |-> << <<"Content-Type", "text/plain; charset=utf8">>,
                    <<"X-IBM-Intrdr-Mode", "TEXT">>,
                    LreclHeader(p), RecfmHeader(p) >>,
     body |-> <<p.jcl>>]

\* mutant: submitJobCommon without its keysToBeDefined check
submitJobCommonValid_Unchecked(p) == TRUE

\* submitJobCommon validates parms.jobDataSet
submitJobCommonValid(p) == keysToBeDefined(p, {"jobDataSet"})

\* submitJclCommon validates parms.jcl
submitJclCommonValid(p) == keysToBeDefined(p, {"jcl"})

\* mutant: submitJclString without its toNotBeEqual(jcl, "") check
submitJclStringValid_EmptyAllowed(jcl) == ~isNullOrUndefined(jcl)

\* submitJclString validates its jcl argument: not null, not undefined, not ""
submitJclStringValid(jcl) == ~isNullOrUndefined(jcl) /\ jcl # ""

\* mutant: submitNotifyCommon checking the job name only
submitNotifyCommonValid_NameOnly(j) == keysToBeDefined(j, {"jobname"})

\* submitNotifyCommon validates the submitted job document
submitNotifyCommonValid(j) == keysToBeDefined(j, {"jobname", "jobid"})

\* the part of an invocation that stays as it is while the entry point runs
EntryFrame ==
    UNCHANGED <<waitParms, attempts, job, spoolFiles, arrOfSpoolFile, task, calls>>

\* submitJobCommon(session, parms) up to its remote call
submitJobCommonBody(p) ==
    /\ submitParms' = p
    /\ IF submitJobCommonValid(p)
       THEN /\ request' = JobRequest(p)
            /\ pc' = "putExpectJSON"
            /\ result' = result
       ELSE /\ request' = request
            /\ pc' = "done"
            /\ result' = Rejected(MissingParameter("jobDataSet"))

\* submitJclCommon(session, parms) up to its remote call
submitJclCommonBody(p) ==
    /\ submitParms' = p
    /\ IF submitJclCommonValid(p)
       THEN /\ request' = JclRequest(p)
            /\ pc' = "putExpectJSON"
            /\ result' = result
       ELSE /\ request' = request
            /\ pc' = "done"
            /\ result' = Rejected(MissingParameter("jcl"))

JclParms(jcl, recfm, lrecl) ==
    [NoSubmitParms EXCEPT !.jcl = jcl, !.internalReaderRecfm = recfm,
                          !.internalReaderLrecl = lrecl]

JobParms(ds) == [NoSubmitParms EXCEPT !.jobDataSet = ds]

\* submitJob(session, jobDataSet)
submitJob ==
    /\ pc = "idle"
    /\ \E ds \in DataSetValues :
         /\ op' = "submitJob"
         /\ submitJobCommonBody(JobParms(ds))
    /\ UNCHANGED <<parms, responseJobInfo>>
    /\ EntryFrame
    /\ UNCHANGED <<workflowVars, shellVars>>

\* submitJobCommon(session, parms)
submitJobCommon ==
    /\ pc = "idle"
    /\ \E ds \in DataSetValues :
         /\ op' = "submitJobCommon"
         /\ submitJobCommonBody(JobParms(ds))
    /\ UNCHANGED <<parms, responseJobInfo>>
    /\ EntryFrame
    /\ UNCHANGED <<workflowVars, shellVars>>

\* submitJcl(session, jcl, internalReaderRecfm, internalReaderLrecl)
submitJcl ==
    /\ pc = "idle"
    /\ \E jcl \in JclValues, recfm \in RecfmValues, lrecl \in LreclValues :
         /\ op' = "submitJcl"
         /\ submitJclCommonBody(JclParms(jcl, recfm, lrecl))
    /\ UNCHANGED <<parms, responseJobInfo>>
    /\ EntryFrame
    /\ UNCHANGED <<workflowVars, shellVars>>

\* submitJclCommon(session, parms)
submitJclCommon ==
    /\ pc = "idle"
    /\ \E jcl \in JclValues, recfm \in RecfmValues, lrecl \in LreclValues :
         /\ op' = "submitJclCommon"
         /\ submitJclCommonBody(JclParms(jcl, recfm, lrecl))
    /\ UNCHANGED <<parms, responseJobInfo>>
    /\ EntryFrame
    /\ UNCHANGED <<workflowVars, shellVars>>

\* submitJclString(session, jcl, parms)
submitJclString ==
    /\ pc = "idle"
    /\ \E jcl \in JclValues, o \in OptionValues :
         /\ op' = "submitJclString"
         /\ parms' = o
         /\ IF submitJclStringValid(jcl)
            THEN submitJclCommonBody(JclParms(jcl, Undefined, Undefined))
            ELSE /\ submitParms' = JclParms(jcl, Undefined, Undefined)
                 /\ request' = request
                 /\ pc' = "done"
                 /\ result' = Rejected(MissingParameter("jcl"))
    /\ UNCHANGED responseJobInfo
    /\ EntryFrame
    /\ UNCHANGED <<workflowVars, shellVars>>

\* submitJclNotify(session, jcl, internalReaderRecfm, internalReaderLrecl)
submitJclNotify ==
    /\ pc = "idle"
    /\ \E jcl \in JclValues, recfm \in RecfmValues, lrecl \in LreclValues :
         /\ op' = "submitJclNotify"
         /\ submitJclCommonBody(JclParms(jcl, recfm, lrecl))
    /\ UNCHANGED <<parms, responseJobInfo>>
    /\ EntryFrame
    /\ UNCHANGED <<workflowVars, shellVars>>

\* submitJclNotifyCommon(session, parms)
submitJclNotifyCommon ==
    /\ pc = "idle"
    /\ \E jcl \in JclValues, recfm \in RecfmValues, lrecl \in LreclValues,
          st \in StatusValues, wd \in WatchDelayValues :
         /\ op' = "submitJclNotifyCommon"
         /\ submitJclCommonBody([JclParms(jcl, recfm, lrecl) EXCEPT
                                    !.status = st, !.watchDelay = wd])
    /\ UNCHANGED <<parms, responseJobInfo>>
    /\ EntryFrame
    /\ UNCHANGED <<workflowVars, shellVars>>

\* submitJobNotify(session, jobDataSet)
submitJobNotify ==
    /\ pc = "idle"
    /\ \E ds \in DataSetValues :
         /\ op' = "submitJobNotify"
         /\ IF keysToBeDefined(JobParms(ds), {"jobDataSet"})
            THEN submitJobCommonBody(JobParms(ds))
            ELSE /\ submitParms' = JobParms(ds)
                 /\ request' = request
                 /\ pc' = "done"
                 /\ result' = Rejected(MissingParameter("jobDataSet"))
    /\ UNCHANGED <<parms, responseJobInfo>>
    /\ EntryFrame
    /\ UNCHANGED <<workflowVars, shellVars>>

\* submitJobNotifyCommon(session, parms)
submitJobNotifyCommon ==
    /\ pc = "idle"
    /\ \E ds \in DataSetValues, st \in StatusValues, wd \in WatchDelayValues :
         LET p == [JobParms(ds) EXCEPT !.status = st, !.watchDelay = wd] IN
         /\ op' = "submitJobNotifyCommon"
         /\ IF keysToBeDefined(p, {"jobDataSet"})
            THEN submitJobCommonBody(p)
            ELSE /\ submitParms' = p
                 /\ request' = request
                 /\ pc' = "done"
                 /\ result' = Rejected(MissingParameter("jobDataSet"))
    /\ UNCHANGED <<parms, responseJobInfo>>
    /\ EntryFrame
    /\ UNCHANGED <<workflowVars, shellVars>>

NotifyOps == {"submitJclNotify", "submitJclNotifyCommon",
              "submitJobNotify", "submitJobNotifyCommon"}

\* where the caller of submitJobCommon / submitJclCommon goes on with the job
AfterSubmit(o) ==
    IF o = "submitJclString" THEN "checkSubmitOptions"
    ELSE IF o \in NotifyOps THEN "submitNotifyCommon"
    ELSE "return"

\* ZosmfRestClient.putExpectJSON<IJob>(session, JobsConstants.RESOURCE, headers, body)
putExpectJSON ==
    /\ pc = "putExpectJSON"
    /\ \/ \E r \in SubmitResponses :
            /\ calls' = Append(calls, Answered("PUT", request, r))
            /\ responseJobInfo' = r
            /\ IF AfterSubmit(op) = "return"
               THEN /\ pc' = "done"
                    /\ result' = Resolved("job", r)
               ELSE /\ pc' = AfterSubmit(op)
                    /\ result' = result
       \/ /\ calls' = Append(calls, Failed("PUT", request))
          /\ responseJobInfo' = responseJobInfo
          /\ pc' = "done"
          /\ result' = Rejected(RemoteCallFailure("PUT"))
    /\ UNCHANGED <<op, submitParms, parms, waitParms, attempts, job, spoolFiles,
                   arrOfSpoolFile, task, request>>
    /\ UNCHANGED <<workflowVars, shellVars>>

\* ------------------------------------------------- MonitorJobs: the poll loop
\* the status the loop waits for: the caller's, or the default
TargetStatus(wp) == IF isNullOrUndefined(wp.status) THEN DEFAULT_STATUS ELSE wp.status

\* the returned status matches the target
StatusMatches(st, wp) == st = TargetStatus(wp)

\* the attempt budget, if one was given, is used up after n queries
AttemptsExhausted(wp, n) == wp.maxAttempts # NoNumber /\ n >= wp.maxAttempts[1]

\* the return code the remote system reports with a status
RetcodesOf(st) == IF st = "OUTPUT" THEN {Null, "CC 0000"} ELSE {Null}

\* mutant: the caller catches the rejected poll and goes on as if it had resolved
OnWaitRejected_Swallowed(e) == [pc |-> "polled", result |-> result]

\* `await MonitorJobs.waitForStatusCommon(...)` rejected with e: no caller catches it,
\* so the entry point's promise rejects with the same e
OnWaitRejected(e) == [pc |-> "done", result |-> Rejected(e)]

\* the parms of the running MonitorJobs.waitForStatusCommon invocation
CurrentWait == waitParms[Len(waitParms)]

\* one round of MonitorJobs.waitForStatusCommon(session, parms): one status query,
\* then success on a match, failure on exhaustion, another round otherwise
waitForStatusCommon ==
    /\ pc = "waitForStatusCommon"
    /\ CurrentWait.maxAttempts = NoNumber => attempts < MaxPolls
    /\ LET wp == CurrentWait
           req == [jobname |-> wp.jobname, jobid |-> wp.jobid]
       IN
       \/ \E st \in JOB_STATUS :
            \E rc \in RetcodesOf(st) :
              LET snap == IJob(wp.jobname, wp.jobid, st, rc) IN
              /\ calls' = Append(calls, Answered("getStatus", req, snap))
              /\ attempts' = attempts + 1
              /\ IF StatusMatches(st, wp)
                 THEN /\ job' = snap
                      /\ IF op \in NotifyOps
                         THEN /\ pc' = "done"
                              /\ result' = Resolved("job", snap)
                         ELSE /\ pc' = "polled"
                              /\ result' = result
                 ELSE /\ job' = job
                      /\ IF AttemptsExhausted(wp, attempts + 1)
                         THEN /\ pc' = OnWaitRejected(MaxAttemptsExceeded).pc
                              /\ result' = OnWaitRejected(MaxAttemptsExceeded).result
                         ELSE /\ pc' = pc
                              /\ result' = result
       \/ /\ calls' = Append(calls, Failed("getStatus", req))
          /\ attempts' = attempts + 1
          /\ job' = job
          /\ pc' = OnWaitRejected(RemoteCallFailure("getStatus")).pc
          /\ result' = OnWaitRejected(RemoteCallFailure("getStatus")).result
    /\ UNCHANGED <<op, submitParms, parms, responseJobInfo, waitParms, spoolFiles,
                   arrOfSpoolFile, task, request>>
    /\ UNCHANGED <<workflowVars, shellVars>>

\* ------------------------------------------------------ submitNotifyCommon
\* mutant: submitNotifyCommon not passing the caller's status on
notifyParms_StatusDropped(j, status, watchDelay) ==
    [jobname |-> j.jobname, jobid |-> j.jobid, status |-> Undefined,
     maxAttempts |-> NoNumber, watchDelay |-> watchDelay]

\* the parms submitNotifyCommon hands to MonitorJobs.waitForStatusCommon
notifyParms(j, status, watchDelay) ==
    [jobname |-> j.jobname, jobid |-> j.jobid, status |-> status,
     maxAttempts |-> NoNumber, watchDelay |-> watchDelay]

\* submitNotifyCommon(session, job, status, watchDelay), entered when the
\* submission of submitJclNotifyCommon / submitJobNotifyCommon has resolved
submitNotifyCommon ==
    /\ pc = "submitNotifyCommon"
    /\ IF submitNotifyCommonValid(responseJobInfo)
       THEN /\ waitParms' = Append(waitParms,
                   notifyParms(responseJobInfo, submitParms.status, submitParms.watchDelay))
            /\ attempts' = 0
            /\ pc' = "waitForStatusCommon"
            /\ result' = result
       ELSE /\ waitParms' = waitParms
            /\ attempts' = attempts
            /\ pc' = "done"
            /\ result' = Rejected(MissingParameter("job"))
    /\ UNCHANGED <<op, submitParms, parms, responseJobInfo, job, spoolFiles,
                   arrOfSpoolFile, task, request, calls>>
    /\ UNCHANGED <<workflowVars, shellVars>>

\* ------------------------------------------------------ checkSubmitOptions
\* mutant: jobParms built without the caller's maxAttempts
jobParms_NoMaxAttempts(p, rji) ==
    [jobname |-> rji.jobname, jobid |-> rji.jobid,
     status |-> IF p.waitForActive THEN "ACTIVE" ELSE "OUTPUT",
     maxAttempts |-> NoNumber, watchDelay |-> p.watchDelay]

\* mutant: jobParms built without the caller's watchDelay
jobParms_NoWatchDelay(p, rji) ==
    [jobname |-> rji.jobname, jobid |-> rji.jobid,
     status |-> IF p.waitForActive THEN "ACTIVE" ELSE "OUTPUT",
     maxAttempts |-> p.maxAttempts, watchDelay |-> NoNumber]

\* the IMonitorJobWaitForParms built first
jobParms(p, rji) ==
    [jobname |-> rji.jobname, jobid |-> rji.jobid,
     status |-> IF p.waitForActive THEN "ACTIVE" ELSE "OUTPUT",
     maxAttempts |-> p.maxAttempts, watchDelay |-> p.watchDelay]

\* mutant: the directory branch tested first
OptionBranch_DirectoryFirst(p) ==
    IF Truthy(p.directory) THEN "directory"
    ELSE IF p.waitForActive THEN "active"
    ELSE IF p.viewAllSpoolContent \/ p.waitForOutput
         THEN IF ~p.viewAllSpoolContent THEN "output" ELSE "spool"
    ELSE "none"

\* mutant: the directory branch tested before the OUTPUT branch
OptionBranch_DirectoryBeforeOutput(p) ==
    IF p.waitForActive THEN "active"
    ELSE IF Truthy(p.directory) THEN "directory"
    ELSE IF p.viewAllSpoolContent \/ p.waitForOutput
         THEN IF ~p.viewAllSpoolContent THEN "output" ELSE "spool"
    ELSE "none"

\* mutant: the directory tested with `!== undefined` instead of for truthiness
OptionBranch_DirectoryDefined(p) ==
    IF p.waitForActive THEN "active"
    ELSE IF p.viewAllSpoolContent \/ p.waitForOutput
         THEN IF ~p.viewAllSpoolContent THEN "output" ELSE "spool"
    ELSE IF p.directory # Undefined THEN "directory"
    ELSE "none"

\* mutant: the spool content is viewed only when a progress sink was supplied
OptionBranch_SpoolOnlyWithSink(p) ==
    IF p.waitForActive THEN "active"
    ELSE IF p.viewAllSpoolContent \/ p.waitForOutput
         THEN IF ~p.viewAllSpoolContent \/ ~p.task THEN "output" ELSE "spool"
    ELSE IF Truthy(p.directory) THEN "directory"
    ELSE "none"

\* the ordered decision list over the options: the first match wins
OptionBranch(p) ==
    IF p.waitForActive THEN "active"
    ELSE IF p.viewAllSpoolContent \/ p.waitForOutput
         THEN IF ~p.viewAllSpoolContent THEN "output" ELSE "spool"
    ELSE IF Truthy(p.directory) THEN "directory"
    ELSE "none"

\* `(job.retcode == null ? "" : ", " + job.retcode)`
RetcodeSuffix(j) == IF isNullOrUndefined(j.retcode) THEN <<>> ELSE <<", ", j.retcode>>

\* the progress sink after `what` was reported, when a sink was supplied
Progress(p, t, message, percent) ==
    IF p.task THEN [statusMessage |-> message, percentComplete |-> percent] ELSE t

\* checkSubmitOptions(session, parms, responseJobInfo) up to its first await
checkSubmitOptionsBody(p, rji) ==
    LET b == OptionBranch(p) IN
    /\ IF b = "none"
       THEN /\ pc' = "done"
            /\ result' = Resolved("job", rji)
            /\ UNCHANGED <<waitParms, attempts, task>>
       ELSE /\ pc' = "waitForStatusCommon"
            /\ result' = result
            /\ waitParms' = Append(waitParms, jobParms(p, rji))
            /\ attempts' = 0
            /\ task' = IF b = "active" THEN task
                       ELSE Progress(p, task,
                               <<"Waiting for ", rji.jobid, " to enter OUTPUT">>,
                               THIRTY_PERCENT)

\* jobs a caller holds from an earlier submission
SubmittedJobs == { j \in SubmitResponses : submitNotifyCommonValid(j) }

\* checkSubmitOptions(session, parms, responseJobInfo), called directly
checkSubmitOptions ==
    /\ pc = "idle"
    /\ \E o \in OptionValues, j \in SubmittedJobs :
         /\ op' = "checkSubmitOptions"
         /\ parms' = o
         /\ responseJobInfo' = j
         /\ checkSubmitOptionsBody(o, j)
    /\ UNCHANGED <<submitParms, job, spoolFiles, arrOfSpoolFile, request, calls>>
    /\ UNCHANGED <<workflowVars, shellVars>>

\* submitJclString goes on with checkSubmitOptions once the submission resolved
submitJclStringOptions ==
    /\ pc = "checkSubmitOptions"
    /\ checkSubmitOptionsBody(parms, responseJobInfo)
    /\ UNCHANGED <<op, submitParms, parms, responseJobInfo, job, spoolFiles,
                   arrOfSpoolFile, request, calls>>
    /\ UNCHANGED <<workflowVars, shellVars>>

\* IO.normalizeExtension: the extension with its leading dot
normalizeExtension(e) == IF e = "txt" THEN ".txt" ELSE e

\* mutant: the download requested with jobid and jobname exchanged
downloadParms_IdNameSwapped(j, p) ==
    [jobid |-> j.jobname, jobname |-> j.jobid, outDir |-> p.directory,
     extension |-> IF Truthy(p.extension) THEN normalizeExtension(p.extension)
                   ELSE Undefined]

\* the IDownloadAllSpoolContentParms of the directory branch
downloadParms(j, p) ==
    [jobid |-> j.jobid, jobname |-> j.jobname, outDir |-> p.directory,
     extension |-> IF Truthy(p.extension) THEN normalizeExtension(p.extension)
                   ELSE Undefined]

\* checkSubmitOptions goes on after `await MonitorJobs.waitForStatusCommon`
checkSubmitOptionsPolled ==
    /\ pc = "polled"
    /\ LET b == OptionBranch(parms) IN
       /\ pc' = IF b = "spool" THEN "getSpoolFilesForJob"
                ELSE IF b = "directory" THEN "downloadAllSpoolContentCommon"
                ELSE "done"
       /\ result' = IF b \in {"spool", "directory"} THEN result
                    ELSE Resolved("job", job)
       /\ task' = IF b = "spool"
                  THEN Progress(parms, task,
                          <<"Retrieving spool content for ", job.jobid>> \o RetcodeSuffix(job),
                          SEVENTY_PERCENT)
                  ELSE IF b = "directory"
                  THEN Progress(parms, task,
                          <<"Downloading spool content for ", job.jobid>> \o RetcodeSuffix(job),
                          SEVENTY_PERCENT)
                  ELSE task
    /\ UNCHANGED <<op, submitParms, parms, responseJobInfo, waitParms, attempts, job,
                   spoolFiles, arrOfSpoolFile, request, calls>>
    /\ UNCHANGED <<workflowVars, shellVars>>

\* ------------------------------------------------------------ spool files
\* the IJobFile with id i
IJobFile(i) ==
    [id |-> i, ddname |-> <<"DD", i>>, stepname |-> <<"STEP", i>>,
     procstep |-> <<"PROC", i>>]

\* the enumerations the remote system may answer with: no file listed twice
SpoolListings ==
    { [k \in DOMAIN s |-> IJobFile(s[k])] :
        s \in { t \in UNION { [1 .. n -> 1 .. MaxSpool] : n \in 0 .. MaxSpool } :
                  \A a, b \in DOMAIN t : a # b => t[a] # t[b] } }

\* the content the remote system holds for a spool file
SpoolContents(file) == { <<"content of", file.id>>, <<>> }

\* mutant: stepname and procstep exchanged in the pushed entry
ISpoolFile_StepProcSwapped(file, spoolContent) ==
    [id |-> file.id, ddName |-> file.ddname, stepName |-> file.procstep,
     procName |-> file.stepname, data |-> spoolContent]

\* the ISpoolFile pushed for a file and its content
ISpoolFile(file, spoolContent) ==
    [id |-> file.id, ddName |-> file.ddname, stepName |-> file.stepname,
     procName |-> file.procstep, data |-> spoolContent]

\* arrOfSpoolFile.push(entry)
Push(arr, entry) == Append(arr, entry)

\* mutant: a failed fetch ends the loop and the entries collected so far are returned
OnContentRejected_Partial(arr, e) == [pc |-> "done", result |-> Resolved("spool", arr)]

\* `await GetJobs.getSpoolContent(...)` rejected with e inside the for loop: the loop
\* is left, arrOfSpoolFile is dropped and checkSubmitOptions rejects with e
OnContentRejected(arr, e) == [pc |-> "done", result |-> Rejected(e)]

\* GetJobs.getSpoolFilesForJob(session, job)
getSpoolFilesForJob ==
    /\ pc = "getSpoolFilesForJob"
    /\ \/ \E files \in SpoolListings :
            /\ calls' = Append(calls, Answered("getSpoolFilesForJob", job, files))
            /\ spoolFiles' = files
            /\ arrOfSpoolFile' = <<>>
            /\ IF files = <<>>
               THEN /\ pc' = "done"
                    /\ result' = Resolved("spool", <<>>)
               ELSE /\ pc' = "getSpoolContent"
                    /\ result' = result
       \/ /\ calls' = Append(calls, Failed("getSpoolFilesForJob", job))
          /\ UNCHANGED <<spoolFiles, arrOfSpoolFile>>
          /\ pc' = "done"
          /\ result' = Rejected(RemoteCallFailure("getSpoolFilesForJob"))
    /\ UNCHANGED <<op, submitParms, parms, responseJobInfo, waitParms, attempts, job,
                   task, request>>
    /\ UNCHANGED <<workflowVars, shellVars>>

\* one round of `for (const file of spoolFiles)`: GetJobs.getSpoolContent(session, file)
getSpoolContent ==
    /\ pc = "getSpoolContent"
    /\ LET file == spoolFiles[Len(arrOfSpoolFile) + 1] IN
       \/ \E spoolContent \in SpoolContents(file) :
            LET arr == Push(arrOfSpoolFile, ISpoolFile(file, spoolContent)) IN
            /\ calls' = Append(calls, Answered("getSpoolContent", file, spoolContent))
            /\ arrOfSpoolFile' = arr
            /\ IF Len(arr) = Len(spoolFiles)
               THEN /\ pc' = "done"
                    /\ result' = Resolved("spool", arr)
               ELSE /\ pc' = pc
                    /\ result' = result
       \/ /\ calls' = Append(calls, Failed("getSpoolContent", file))
          /\ arrOfSpoolFile' = arrOfSpoolFile
          /\ pc' = OnContentRejected(arrOfSpoolFile, RemoteCallFailure("getSpoolContent")).pc
          /\ result' = OnContentRejected(arrOfSpoolFile, RemoteCallFailure("getSpoolContent")).result
    /\ UNCHANGED <<op, submitParms, parms, responseJobInfo, waitParms, attempts, job,
                   spoolFiles, task, request>>
    /\ UNCHANGED <<workflowVars, shellVars>>

\* DownloadJobs.downloadAllSpoolContentCommon(session, downloadParms)
downloadAllSpoolContentCommon ==
    /\ pc = "downloadAllSpoolContentCommon"
    /\ LET req == downloadParms(job, parms) IN
       \/ /\ calls' = Append(calls, Answered("downloadAllSpoolContentCommon", req, Undefined))
          /\ pc' = "done"
          /\ result' = Resolved("job", job)
       \/ /\ calls' = Append(calls, Failed("downloadAllSpoolContentCommon", req))
          /\ pc' = "done"
          /\ result' = Rejected(RemoteCallFailure("downloadAllSpoolContentCommon"))
    /\ UNCHANGED <<op, submitParms, parms, responseJobInfo, waitParms, attempts, job,
                   spoolFiles, arrOfSpoolFile, task, request>>
    /\ UNCHANGED <<workflowVars, shellVars>>

\* ---------------------------------------------------------- specification
Next ==
    \/ submitJob
    \/ submitJobCommon
    \/ submitJcl
    \/ submitJclCommon
    \/ submitJclString
    \/ submitJclNotify
    \/ submitJclNotifyCommon
    \/ submitJobNotify
    \/ submitJobNotifyCommon
    \/ putExpectJSON
    \/ submitNotifyCommon
    \/ checkSubmitOptions
    \/ submitJclStringOptions
    \/ waitForStatusCommon
    \/ checkSubmitOptionsPolled
    \/ getSpoolFilesForJob
    \/ getSpoolContent
    \/ downloadAllSpoolContentCommon

Spec == Init /\ [][Next]_vars

\* ------------------ checkSubmitOptions as a function of the remote answers
\* the locals of one checkSubmitOptions run
Run(at, wp, n, j, files, arr, t, cs, res) ==
    [pc |-> at, wp |-> wp, attempts |-> n, job |-> j, spoolFiles |-> files,
     arrOfSpoolFile |-> arr, task |-> t, calls |-> cs, result |-> res]

\* checkSubmitOptions(session, p, rji) up to its first await
RunEntered(p, rji) ==
    LET b == OptionBranch(p) IN
    IF b = "none"
    THEN Run("done", jobParms(p, rji), 0, NoJob, <<>>, <<>>, NoProgress, <<>>,
             Resolved("job", rji))
    ELSE Run("waitForStatusCommon", jobParms(p, rji), 0, NoJob, <<>>, <<>>,
             IF b = "active" THEN NoProgress
             ELSE Progress(p, NoProgress,
                     <<"Waiting for ", rji.jobid, " to enter OUTPUT">>, THIRTY_PERCENT),
             <<>>, Pending)

\* the run goes on after `await MonitorJobs.waitForStatusCommon` resolved
RunPolled(p, r) ==
    LET b == OptionBranch(p) IN
    IF r.pc # "polled" THEN r
    ELSE IF b = "spool"
    THEN [r EXCEPT !.pc = "getSpoolFilesForJob",
                   !.task = Progress(p, r.task,
                               <<"Retrieving spool content for ", r.job.jobid>>
                                   \o RetcodeSuffix(r.job), SEVENTY_PERCENT)]
    ELSE IF b = "directory"
    THEN [r EXCEPT !.pc = "downloadAllSpoolContentCommon",
                   !.task = Progress(p, r.task,
                               <<"Downloading spool content for ", r.job.jobid>>
                                   \o RetcodeSuffix(r.job), SEVENTY_PERCENT)]
    ELSE [r EXCEPT !.pc = "done", !.result = Resolved("job", r.job)]

\* the run issues its next remote call; `a` tells how the remote system answered it
RunAwait(p, r, a) ==
    IF r.pc = "waitForStatusCommon"
    THEN LET req == [jobname |-> r.wp.jobname, jobid |-> r.wp.jobid] IN
         IF ~a.ok
         THEN [r EXCEPT !.calls = Append(@, Failed("getStatus", req)),
                        !.attempts = @ + 1,
                        !.pc = "done",
                        !.result = Rejected(RemoteCallFailure("getStatus"))]
         ELSE IF StatusMatches(a.res.status, r.wp)
         THEN [r EXCEPT !.calls = Append(@, Answered("getStatus", req, a.res)),
                        !.attempts = @ + 1,
                        !.job = a.res,
                        !.pc = "polled"]
         ELSE IF AttemptsExhausted(r.wp, r.attempts + 1)
         THEN [r EXCEPT !.calls = Append(@, Answered("getStatus", req, a.res)),
                        !.attempts = @ + 1,
                        !.pc = "done",
                        !.result = Rejected(MaxAttemptsExceeded)]
         ELSE [r EXCEPT !.calls = Append(@, Answered("getStatus", req, a.res)),
                        !.attempts = @ + 1]
    ELSE IF r.pc = "getSpoolFilesForJob"
    THEN IF ~a.ok
         THEN [r EXCEPT !.calls = Append(@, Failed("getSpoolFilesForJob", r.job)),
                        !.pc = "done",
                        !.result = Rejected(RemoteCallFailure("getSpoolFilesForJob"))]
         ELSE IF a.res = <<>>
         THEN [r EXCEPT !.calls = Append(@, Answered("getSpoolFilesForJob", r.job, a.res)),
                        !.pc = "done",
                        !.result = Resolved("spool", <<>>)]
         ELSE [r EXCEPT !.calls = Append(@, Answered("getSpoolFilesForJob", r.job, a.res)),
                        !.spoolFiles = a.res,
                        !.pc = "getSpoolContent"]
    ELSE IF r.pc = "getSpoolContent"
    THEN LET file == r.spoolFiles[Len(r.arrOfSpoolFile) + 1]
             arr == Push(r.arrOfSpoolFile, ISpoolFile(file, a.res))
         IN
         IF ~a.ok
         THEN [r EXCEPT !.calls = Append(@, Failed("getSpoolContent", file)),
                        !.pc = "done",
                        !.result = Rejected(RemoteCallFailure("getSpoolContent"))]
         ELSE IF Len(arr) = Len(r.spoolFiles)
         THEN [r EXCEPT !.calls = Append(@, Answered("getSpoolContent", file, a.res)),
                        !.arrOfSpoolFile = arr,
                        !.pc = "done",
                        !.result = Resolved("spool", arr)]
         ELSE [r EXCEPT !.calls = Append(@, Answered("getSpoolContent", file, a.res)),
                        !.arrOfSpoolFile = arr]
    ELSE IF r.pc = "downloadAllSpoolContentCommon"
    THEN LET req == downloadParms(r.job, p) IN
         IF ~a.ok
         THEN [r EXCEPT !.calls = Append(@, Failed("downloadAllSpoolContentCommon", req)),
                        !.pc = "done",
                        !.result =
                            Rejected(RemoteCallFailure("downloadAllSpoolContentCommon"))]
         ELSE [r EXCEPT !.calls =
                            Append(@, Answered("downloadAllSpoolContentCommon", req, Undefined)),
                        !.pc = "done",
                        !.result = Resolved("job", r.job)]
    ELSE r

\* the run carried on through the answers of the remote system, one per call
RECURSIVE RunThrough(_, _, _)
RunThrough(p, r, answers) ==
    IF answers = <<>> \/ r.pc = "done" THEN r
    ELSE RunThrough(p, RunPolled(p, RunAwait(p, r, Head(answers))), Tail(answers))

\* checkSubmitOptions(session, p, rji) against a remote system that answers the
\* calls, in the order they are issued, as `answers` tells
Replay(p, rji, answers) == RunThrough(p, RunEntered(p, rji), answers)

\* ------------------------------------------- StartCommonHandler.processCmd
\* the arguments of StartWorkflow.startWorkflow, read from this.arguments
StartCall(a) ==
    [api |-> "startWorkflow",
     req |-> [workflowKey |-> a.workflowKey, resolveConflict |-> a.resolveConflict,
              stepName |-> a.stepName, performFollowingSteps |-> ~a.performOneStep[1]]]

\* the argument of PropertiesWorkflow.getWorkflowProperties, read from this.arguments
PropertiesCall(a) ==
    [api |-> "getWorkflowProperties", req |-> [workflowKey |-> a.workflowKey]]

Settled(c, res) == [api |-> c.api, req |-> c.req, ok |-> TRUE, res |-> res]
Broke(c, e) == [api |-> c.api, req |-> c.req, ok |-> FALSE, res |-> e]

\* `if (isNullOrUndefined(this.arguments.performOneStep)) this.arguments.performOneStep = false`
DefaultPerformOneStep(a) ==
    IF a.performOneStep = NoBoolean THEN [a EXCEPT !.performOneStep = Bool(FALSE)] ELSE a

\* `catch (err) { error = "Start workflow: " + err; throw error; }`
StartFailure(err) == <<"Start workflow: ">> \o err

\* mutant: the loop left only when the workflow is complete
LoopEnds_OnComplete(response) ==
    /\ response.automationStatus # <<>>
    /\ isNullOrUndefined(response.automationStatus[1].currentStepName)
    /\ response.statusName = "complete"

\* the response on which the wait loop sets x = false
LoopEnds(response) ==
    /\ response.automationStatus # <<>>
    /\ isNullOrUndefined(response.automationStatus[1].currentStepName)

\* mutant: every terminal response reported as a completed workflow
Report_AlwaysComplete(response) ==
    [obj |-> "Complete.", log |-> "Workflow completed successfully."]

\* what the loop reports for the response that ends it
Report(response) ==
    IF response.statusName = "complete"
    THEN [obj |-> "Complete.", log |-> "Workflow completed successfully."]
    ELSE [obj |-> "Fail.", log |-> "Workflow failed."]

PropertiesQueries(i) == SelectSeq(wcalls[i], LAMBDA c : c.api = "getWorkflowProperties")

\* processCmd up to its first await: this.arguments is pointed at the caller's
\* arguments, performOneStep is defaulted in them, the start call is issued
processCmd(i) ==
    /\ wpc[i] = "idle"
    /\ \E a \in ArgumentValues :
          /\ params' = [params EXCEPT ![i] = DefaultPerformOneStep(a)]
          /\ inflight' = [inflight EXCEPT ![i] = StartCall(DefaultPerformOneStep(a))]
    /\ thisArguments' = i
    /\ wpc' = [wpc EXCEPT ![i] = "startWorkflow"]
    /\ UNCHANGED <<wcalls, dataObj, console, thrown>>
    /\ UNCHANGED <<submitVars, shellVars>>

\* processCmd resumes from `await StartWorkflow.startWorkflow(...)`
startWorkflowSettled(i) ==
    /\ wpc[i] = "startWorkflow"
    /\ \/ \E err \in RemoteErrors :
             /\ wcalls' = [wcalls EXCEPT ![i] = Append(@, Broke(inflight[i], err))]
             /\ thrown' = [thrown EXCEPT ![i] = StartFailure(err)]
             /\ wpc' = [wpc EXCEPT ![i] = "rejected"]
             /\ inflight' = [inflight EXCEPT ![i] = NoCall]
             /\ UNCHANGED <<dataObj, console>>
       \/ /\ wcalls' = [wcalls EXCEPT ![i] = Append(@, Settled(inflight[i], Undefined))]
          /\ IF params[thisArguments].wait
             THEN /\ inflight' = [inflight EXCEPT ![i] = PropertiesCall(params[thisArguments])]
                  /\ wpc' = [wpc EXCEPT ![i] = "getWorkflowProperties"]
                  /\ UNCHANGED <<dataObj, console>>
             ELSE /\ dataObj' = [dataObj EXCEPT ![i] = Append(@, "Started.")]
                  /\ console' = [console EXCEPT ![i] = Append(@, "Workflow started.")]
                  /\ wpc' = [wpc EXCEPT ![i] = "fulfilled"]
                  /\ inflight' = [inflight EXCEPT ![i] = NoCall]
          /\ UNCHANGED thrown
    /\ UNCHANGED <<thisArguments, params>>
    /\ UNCHANGED <<submitVars, shellVars>>

\* processCmd resumes from `await PropertiesWorkflow.getWorkflowProperties(...)`
getWorkflowPropertiesSettled(i) ==
    /\ wpc[i] = "getWorkflowProperties"
    /\ \/ \E err \in RemoteErrors :
             /\ wcalls' = [wcalls EXCEPT ![i] = Append(@, Broke(inflight[i], err))]
             /\ thrown' = [thrown EXCEPT ![i] = err]
             /\ wpc' = [wpc EXCEPT ![i] = "rejected"]
             /\ inflight' = [inflight EXCEPT ![i] = NoCall]
             /\ UNCHANGED <<dataObj, console>>
       \/ \E response \in WorkflowInfos :
             /\ wcalls' = [wcalls EXCEPT ![i] = Append(@, Settled(inflight[i], response))]
             /\ IF LoopEnds(response)
                THEN /\ dataObj' = [dataObj EXCEPT ![i] = Append(@, Report(response).obj)]
                     /\ console' = [console EXCEPT ![i] = Append(@, Report(response).log)]
                     /\ wpc' = [wpc EXCEPT ![i] = "fulfilled"]
                     /\ inflight' = [inflight EXCEPT ![i] = NoCall]
                ELSE /\ Len(PropertiesQueries(i)) + 1 < MaxQueries
                     /\ inflight' =
                           [inflight EXCEPT ![i] = PropertiesCall(params[thisArguments])]
                     /\ UNCHANGED <<wpc, dataObj, console>>
             /\ UNCHANGED thrown
    /\ UNCHANGED <<thisArguments, params>>
    /\ UNCHANGED <<submitVars, shellVars>>

\* processCmd invocations of one handler object, interleaved at their awaits
NextHandler ==
    \E i \in Invocations :
        \/ processCmd(i)
        \/ startWorkflowSettled(i)
        \/ getWorkflowPropertiesSettled(i)

SpecHandler == Init /\ [][NextHandler]_vars

\* one processCmd invocation on the handler object, run from call to return
NextStart ==
    \/ processCmd("A")
    \/ startWorkflowSettled("A")
    \/ getWorkflowPropertiesSettled("A")

SpecStart == Init /\ [][NextStart]_vars

\* --------------------------------- Shell.executeSsh / Shell.executeSshCwd
\* the remote output written so far, chunk after chunk, as one string
RECURSIVE Concat(_)
Concat(chunks) == IF chunks = <<>> THEN <<>> ELSE Head(chunks) \o Concat(Tail(chunks))

\* mutant: the sink keeps only the chunk it was given last
Sink_Overwrite(acc, data) == data

\* the sink of the test: `(data: string) => { stdoutData += data; }`
Sink(acc, data) == acc \o data

\* `let stdoutData = ""; await Shell.executeSsh(SSH_SESSION, "uname", sink)`
executeSsh ==
    /\ shpc = "idle"
    /\ command' = [command |-> "uname", cwd |-> Undefined]
    /\ stdoutData' = <<>>
    /\ shpc' = "running"
    /\ UNCHANGED <<remoteOut, channel, sinkCalls>>
    /\ UNCHANGED <<submitVars, workflowVars>>

\* `let stdoutData = ""; await Shell.executeSshCwd(SSH_SESSION, "pwd", cwd, sink)`
executeSshCwd ==
    /\ shpc = "idle"
    /\ command' = [command |-> "pwd", cwd |-> "/u/testdir"]
    /\ stdoutData' = <<>>
    /\ shpc' = "running"
    /\ UNCHANGED <<remoteOut, channel, sinkCalls>>
    /\ UNCHANGED <<submitVars, workflowVars>>

\* the remote command writes a chunk of output, which the channel carries as a data event
remoteWrites ==
    /\ shpc = "running"
    /\ \E chunk \in Chunks :
          /\ Len(Concat(remoteOut)) + Len(chunk) <= MaxOutput
          /\ remoteOut' = Append(remoteOut, chunk)
          /\ channel' = Append(channel, [event |-> "data", data |-> chunk])
    /\ UNCHANGED <<shpc, command, sinkCalls, stdoutData>>
    /\ UNCHANGED <<submitVars, workflowVars>>

\* the remote command terminates: the channel carries its close after its output
remoteExits ==
    /\ shpc = "running"
    /\ shpc' = "exited"
    /\ channel' = Append(channel, [event |-> "close", data |-> <<>>])
    /\ UNCHANGED <<command, remoteOut, sinkCalls, stdoutData>>
    /\ UNCHANGED <<submitVars, workflowVars>>

\* a data event arrives: the sink is called with its chunk
onData ==
    /\ channel # <<>>
    /\ Head(channel).event = "data"
    /\ sinkCalls' = Append(sinkCalls, Head(channel).data)
    /\ stdoutData' = Sink(stdoutData, Head(channel).data)
    /\ channel' = Tail(channel)
    /\ UNCHANGED <<shpc, command, remoteOut>>
    /\ UNCHANGED <<submitVars, workflowVars>>

\* the close event arrives: the promise of executeSsh / executeSshCwd resolves
onClose ==
    /\ channel # <<>>
    /\ Head(channel).event = "close"
    /\ shpc' = "resolved"
    /\ channel' = Tail(channel)
    /\ UNCHANGED <<command, remoteOut, sinkCalls, stdoutData>>
    /\ UNCHANGED <<submitVars, workflowVars>>

NextShell ==
    \/ executeSsh
    \/ executeSshCwd
    \/ remoteWrites
    \/ remoteExits
    \/ onData
    \/ onClose

SpecShell == Init /\ [][NextShell]_vars

\* ------------------------------------------------------- claim vocabulary
Done == pc = "done"
Failure == result.kind = "error"
FailedWith(e) == result.kind = "error" /\ result.value.error = e

OptionOps == {"submitJclString", "checkSubmitOptions"}
JclOps == {"submitJcl", "submitJclCommon", "submitJclString",
           "submitJclNotify", "submitJclNotifyCommon"}
JobOps == {"submitJob", "submitJobCommon", "submitJobNotify", "submitJobNotifyCommon"}

\* the remote calls checkSubmitOptions issued (all but the submission itself)
OptionCalls == SelectSeq(calls, LAMBDA c : c.api # "PUT")
StatusCalls == CallsTo("getStatus")
ListCalls == CallsTo("getSpoolFilesForJob")
ContentCalls == CallsTo("getSpoolContent")
DownloadCalls == CallsTo("downloadAllSpoolContentCommon")

\* the submission was answered with a job document
Submitted == \E i \in DOMAIN calls : calls[i].api = "PUT" /\ calls[i].ok

\* the status the caller asked the poll loop to wait for
RequestedTarget ==
    IF op \in OptionOps
    THEN IF parms.waitForActive THEN "ACTIVE" ELSE "OUTPUT"
    ELSE IF isNullOrUndefined(submitParms.status) THEN DEFAULT_STATUS
    ELSE submitParms.status

\* the i-th status query was answered with the requested status
Hit(i) == StatusCalls[i].ok /\ StatusCalls[i].res.status = RequestedTarget

\* the options, as the caller sets them
ActiveSet == parms.waitForActive
SpoolSet == parms.viewAllSpoolContent
OutputSet == parms.waitForOutput
DirectorySet == Truthy(parms.directory)

\* C1: with waitForActive set, checkSubmitOptions issues status queries only, in one
\* poll for ACTIVE, and what it returns is the snapshot that poll ended with; no spool
\* listing, spool content fetch or bulk download is issued, whatever else is set.
C1_WaitForActiveWins ==
    (op \in OptionOps /\ ActiveSet) =>
        /\ \A i \in DOMAIN OptionCalls : OptionCalls[i].api = "getStatus"
        /\ Len(waitParms) <= 1
        /\ \A i \in DOMAIN waitParms : waitParms[i].status = "ACTIVE"
        /\ (Done /\ ~Failure) => Len(waitParms) = 1
        /\ (Done /\ ~Failure) =>
              /\ result.kind = "job"
              /\ StatusCalls # <<>>
              /\ StatusCalls[Len(StatusCalls)].ok
              /\ result.value = StatusCalls[Len(StatusCalls)].res
              /\ result.value.status = "ACTIVE"

C1_Witness ==
    /\ op \in OptionOps /\ ActiveSet /\ DirectorySet /\ SpoolSet /\ OutputSet
    /\ Done /\ result.kind = "job" /\ Len(StatusCalls) = 2

\* C2: a status query answered with the requested status is the last query of the
\* loop: the loop resolved with exactly that snapshot, every earlier query was answered
\* with another status, and no query follows; the entry points that return the polled
\* snapshot return that one.
C2_PollStopsAtFirstMatch ==
    /\ \A i \in DOMAIN StatusCalls :
          Hit(i) => /\ i = Len(StatusCalls)
                    /\ job = StatusCalls[i].res
                    /\ pc # "waitForStatusCommon"
                    /\ attempts = i
    /\ (job # NoJob) => (StatusCalls # <<>> /\ Hit(Len(StatusCalls)))
    /\ (Done /\ result.kind = "job" /\ StatusCalls # <<>>) =>
          /\ Hit(Len(StatusCalls))
          /\ result.value = StatusCalls[Len(StatusCalls)].res

C2_Witness ==
    /\ op \in NotifyOps /\ RequestedTarget = "ACTIVE"
    /\ Len(StatusCalls) = 3
    /\ StatusCalls[1].ok /\ StatusCalls[1].res.status = "INPUT"
    /\ StatusCalls[2].ok /\ StatusCalls[2].res.status = "INPUT"
    /\ Done /\ result.kind = "job" /\ result.value.status = "ACTIVE"

\* C3: with maxAttempts = m, the loop never issues more than m status queries; it
\* fails with MaxAttemptsExceeded exactly when m queries were answered and none with
\* the requested status; a failed query is a RemoteCallFailure, never
\* MaxAttemptsExceeded.
C3_PollExhaustion ==
    /\ (op \in OptionOps /\ parms.maxAttempts # NoNumber) =>
          LET m == parms.maxAttempts[1] IN
          /\ Len(StatusCalls) <= m
          /\ ( /\ Len(StatusCalls) = m
               /\ \A i \in DOMAIN StatusCalls : StatusCalls[i].ok /\ ~Hit(i) )
             => (Done /\ result = Rejected(MaxAttemptsExceeded))
          /\ FailedWith("MaxAttemptsExceeded") => Len(StatusCalls) = m
    /\ FailedWith("MaxAttemptsExceeded") =>
          /\ op \in OptionOps /\ parms.maxAttempts # NoNumber
          /\ \A i \in DOMAIN StatusCalls : StatusCalls[i].ok /\ ~Hit(i)
    /\ (StatusCalls # <<>> /\ ~StatusCalls[Len(StatusCalls)].ok) =>
          (Done /\ result = Rejected(RemoteCallFailure("getStatus")))

C3_Witness ==
    /\ op \in OptionOps /\ parms.maxAttempts = Num(2)
    /\ Len(StatusCalls) = 2
    /\ FailedWith("MaxAttemptsExceeded")

\* C4: submitJclString with a null, undefined or empty jcl has failed with
\* MissingParameter and has issued no remote call, whatever the options are.
C4_SubmitJclStringMissingJcl ==
    (op = "submitJclString" /\ submitParms.jcl \in {Null, Undefined, ""}) =>
        /\ Done
        /\ result = Rejected(MissingParameter("jcl"))
        /\ calls = <<>>
        /\ waitParms = <<>>

C4_Witness ==
    /\ op = "submitJclString" /\ submitParms.jcl = ""
    /\ ActiveSet /\ DirectorySet
    /\ Done /\ FailedWith("MissingParameter")

\* C5: with viewAllSpoolContent set and waitForActive not, a call that succeeds
\* returns one entry per enumerated descriptor, in enumeration order, entry i holding
\* the id, ddname, stepname and procstep of descriptor i and the content fetched for
\* descriptor i.
C5_SpoolAggregation ==
    (op \in OptionOps /\ SpoolSet /\ ~ActiveSet /\ Done /\ ~Failure) =>
        /\ result.kind = "spool"
        /\ Len(ListCalls) = 1 /\ ListCalls[1].ok
        /\ LET d == ListCalls[1].res
               r == result.value
           IN
           /\ Len(r) = Len(d)
           /\ Len(ContentCalls) = Len(d)
           /\ \A i \in DOMAIN d :
                 /\ ContentCalls[i].ok
                 /\ ContentCalls[i].req = d[i]
                 /\ r[i].id = d[i].id
                 /\ r[i].ddName = d[i].ddname
                 /\ r[i].stepName = d[i].stepname
                 /\ r[i].procName = d[i].procstep
                 /\ r[i].data = ContentCalls[i].res

C5_Witness ==
    /\ op \in OptionOps /\ SpoolSet /\ ~ActiveSet
    /\ Done /\ result.kind = "spool"
    /\ Len(result.value) = MaxSpool
    /\ result.value[1].id = MaxSpool
    /\ result.value[1].data # result.value[MaxSpool].data

\* C6: with none of waitForActive, viewAllSpoolContent, waitForOutput and directory
\* set, checkSubmitOptions starts no poll and issues no remote call, leaves the
\* progress sink alone, and returns the job document it was given, unchanged.
C6_NoOptionReturnsOriginal ==
    (op \in OptionOps /\ ~ActiveSet /\ ~SpoolSet /\ ~OutputSet /\ ~DirectorySet) =>
        /\ OptionCalls = <<>>
        /\ waitParms = <<>>
        /\ task = NoProgress
        /\ pc \in {"putExpectJSON", "checkSubmitOptions", "done"}
        /\ op = "checkSubmitOptions" => Done
        /\ (Done /\ ~Failure) => result = Resolved("job", responseJobInfo)
        /\ (Done /\ Failure) => (op = "submitJclString" /\ responseJobInfo = NoJob)

C6_Witness ==
    /\ op \in OptionOps /\ ~ActiveSet /\ ~SpoolSet /\ ~OutputSet /\ ~DirectorySet
    /\ parms.task /\ parms.maxAttempts = Num(1) /\ parms.extension = "txt"
    /\ Done /\ result.kind = "job" /\ result.value.jobid = "JOB00001"

\* C7: with waitForOutput set and neither waitForActive nor viewAllSpoolContent,
\* checkSubmitOptions issues status queries only, in one poll for OUTPUT, and returns
\* the snapshot that poll ended with; no spool call and no download, directory or not.
C7_WaitForOutputOnly ==
    (op \in OptionOps /\ OutputSet /\ ~ActiveSet /\ ~SpoolSet) =>
        /\ \A i \in DOMAIN OptionCalls : OptionCalls[i].api = "getStatus"
        /\ Len(waitParms) <= 1
        /\ \A i \in DOMAIN waitParms : waitParms[i].status = "OUTPUT"
        /\ (Done /\ ~Failure) =>
              /\ Len(waitParms) = 1
              /\ result.kind = "job"
              /\ StatusCalls # <<>>
              /\ StatusCalls[Len(StatusCalls)].ok
              /\ result.value = StatusCalls[Len(StatusCalls)].res
              /\ result.value.status = "OUTPUT"

C7_Witness ==
    /\ op \in OptionOps /\ OutputSet /\ ~ActiveSet /\ ~SpoolSet /\ DirectorySet
    /\ Done /\ result.kind = "job" /\ result.value.retcode = "CC 0000"

\* C8: with directory set and none of waitForActive, viewAllSpoolContent and
\* waitForOutput, the bulk download is issued at most once, as the call right after the
\* status query that was answered OUTPUT, for the polled job's jobid and jobname and
\* the caller's directory; a call that succeeds has issued it and returns the polled
\* snapshot; no spool listing or content fetch is issued.
C8_DirectoryDownload ==
    (op \in OptionOps /\ DirectorySet /\ ~ActiveSet /\ ~SpoolSet /\ ~OutputSet) =>
        /\ Len(DownloadCalls) <= 1
        /\ ListCalls = <<>> /\ ContentCalls = <<>>
        /\ \A i \in DOMAIN calls :
              calls[i].api = "downloadAllSpoolContentCommon" =>
                 /\ i = Len(calls)
                 /\ i > 1
                 /\ calls[i - 1].api = "getStatus"
                 /\ calls[i - 1].ok
                 /\ calls[i - 1].res.status = "OUTPUT"
                 /\ calls[i - 1].res = job
                 /\ calls[i].req.jobid = job.jobid
                 /\ calls[i].req.jobname = job.jobname
                 /\ calls[i].req.outDir = parms.directory
        /\ (Done /\ ~Failure) =>
              /\ Len(DownloadCalls) = 1
              /\ DownloadCalls[1].ok
              /\ result = Resolved("job", job)
              /\ job.status = "OUTPUT"

C8_Witness ==
    /\ op \in OptionOps /\ DirectorySet /\ ~ActiveSet /\ ~SpoolSet /\ ~OutputSet
    /\ Done /\ result.kind = "job" /\ Len(StatusCalls) = 2
    /\ Len(DownloadCalls) = 1 /\ DownloadCalls[1].req.jobname = "JOB1"

\* the submission of a notify wrapper was answered without a job name or a job id
LacksIdentity ==
    /\ Submitted
    /\ isNullOrUndefined(responseJobInfo.jobname) \/ isNullOrUndefined(responseJobInfo.jobid)

\* C9: in the notify wrappers a poll is started, and a status query issued, only for a
\* submission response that has both a job name and a job id; for a response lacking
\* one of them the wrapper fails with MissingParameter and has issued no status query.
C9_NotifyNeedsIdentity ==
    (op \in NotifyOps) =>
        /\ (waitParms # <<>> \/ StatusCalls # <<>>) =>
              /\ Submitted
              /\ ~isNullOrUndefined(responseJobInfo.jobname)
              /\ ~isNullOrUndefined(responseJobInfo.jobid)
        /\ LacksIdentity =>
              /\ StatusCalls = <<>>
              /\ pc \in {"submitNotifyCommon", "done"}
              /\ Done => result = Rejected(MissingParameter("job"))

C9_Witness ==
    /\ op = "submitJobNotifyCommon" /\ Done
    /\ responseJobInfo.jobname = "JOB1" /\ isNullOrUndefined(responseJobInfo.jobid)
    /\ result = Rejected(MissingParameter("job"))

\* the required input of the invoked entry point is absent
InputAbsent ==
    \/ op \in JclOps /\ isNullOrUndefined(submitParms.jcl)
    \/ op \in JobOps /\ isNullOrUndefined(submitParms.jobDataSet)

\* C10 as stated: whenever an operation has failed with MissingParameter, it has
\* issued no remote call.
C10_MissingParameterBeforeAnyCall ==
    FailedWith("MissingParameter") => calls = <<>>

\* C10 as amended: an absent JCL text or data-set name fails with MissingParameter
\* before any remote call; a MissingParameter for the job name/id pair is raised by
\* the notify wrappers after exactly one remote call, the answered submission, and
\* before any status query.
C10_MissingParameterCalls ==
    /\ InputAbsent => (Done /\ FailedWith("MissingParameter") /\ calls = <<>>)
    /\ FailedWith("MissingParameter") =>
          /\ Done
          /\ IF result.value.from \in {"jcl", "jobDataSet"}
             THEN calls = <<>>
             ELSE /\ op \in NotifyOps
                  /\ LacksIdentity
                  /\ Len(calls) = 1
                  /\ calls[1].api = "PUT"
                  /\ calls[1].ok

C10_Witness ==
    /\ op = "submitJclNotifyCommon" /\ Done
    /\ result = Rejected(MissingParameter("job"))
    /\ Len(calls) = 1

\* C11: in the viewAllSpoolContent branch a content fetch that fails is the last remote
\* call of the invocation: checkSubmitOptions has failed with that call's error, no
\* list is returned, and the files after the failed one are never fetched.
C11_SpoolFetchFailFast ==
    (op \in OptionOps) =>
        /\ \A i \in DOMAIN calls :
              (calls[i].api = "getSpoolContent" /\ ~calls[i].ok) =>
                 /\ i = Len(calls)
                 /\ Done
                 /\ result = Rejected(RemoteCallFailure("getSpoolContent"))
                 /\ Len(ContentCalls) = Len(arrOfSpoolFile) + 1
                 /\ calls[i].req = spoolFiles[Len(ContentCalls)]
        /\ (Done /\ result.kind = "spool") =>
              \A i \in DOMAIN ContentCalls : ContentCalls[i].ok

C11_Witness ==
    /\ op \in OptionOps /\ SpoolSet /\ ~ActiveSet
    /\ Len(spoolFiles) = MaxSpool
    /\ Len(ContentCalls) = MaxSpool - 1
    /\ ~ContentCalls[Len(ContentCalls)].ok
    /\ Done /\ FailedWith("RemoteCallFailure")

\* the poll of checkSubmitOptions has failed: its last status query was not answered,
\* or it was the last one the attempt budget allows and was answered with another status
PollFailed ==
    /\ StatusCalls # <<>>
    /\ LET n == Len(StatusCalls) IN
       \/ ~StatusCalls[n].ok
       \/ /\ ~Hit(n)
          /\ parms.maxAttempts # NoNumber
          /\ n = parms.maxAttempts[1]

\* the error the failed poll ended with
PollError ==
    IF StatusCalls[Len(StatusCalls)].ok THEN MaxAttemptsExceeded
    ELSE RemoteCallFailure("getStatus")

\* C20: when the status poll of checkSubmitOptions fails, with MaxAttemptsExceeded or
\* with a remote call failure, checkSubmitOptions has failed with that same error, the
\* failed status query is its last remote call, and no job snapshot or spool list is
\* returned; spool listing, content fetch and download happen only after a poll that
\* reached its target.
C20_PollFailureEndsCall ==
    (op \in OptionOps) =>
        /\ PollFailed =>
              /\ Done
              /\ result = Rejected(PollError)
              /\ calls[Len(calls)].api = "getStatus"
              /\ ListCalls = <<>> /\ ContentCalls = <<>> /\ DownloadCalls = <<>>
        /\ (ListCalls # <<>> \/ ContentCalls # <<>> \/ DownloadCalls # <<>>) =>
              \E i \in DOMAIN StatusCalls : Hit(i)

C20_Witness ==
    /\ op \in OptionOps /\ DirectorySet /\ ~ActiveSet /\ ~OutputSet /\ ~SpoolSet
    /\ Len(StatusCalls) = 2 /\ ~StatusCalls[2].ok
    /\ Done /\ FailedWith("RemoteCallFailure")

\* the values of the headers called `name` in a request
HeaderValues(req, name) ==
    SelectSeq(req.headers, LAMBDA h : h[1] = name)

\* the value a literal-JCL request must carry: the caller's, or the default
Expected(given, default) == IF Truthy(given) THEN given ELSE default

\* C16: every literal-JCL request that is built or sent carries exactly one
\* X-IBM-Intrdr-Recfm header, with the caller's record format when one is supplied and
\* F otherwise, and exactly one X-IBM-Intrdr-Lrecl header, with the caller's record
\* length when one is supplied and 80 otherwise, each chosen on its own.
C16_InternalReaderHeaders ==
    (op \in JclOps) =>
        \A req \in {request} \cup {calls[i].req : i \in {j \in DOMAIN calls : calls[j].api = "PUT"}} :
            req # NoRequest =>
               /\ HeaderValues(req, "X-IBM-Intrdr-Recfm") =
                     << <<"X-IBM-Intrdr-Recfm",
                          Expected(submitParms.internalReaderRecfm, "F")>> >>
               /\ HeaderValues(req, "X-IBM-Intrdr-Lrecl") =
                     << <<"X-IBM-Intrdr-Lrecl",
                          Expected(submitParms.internalReaderLrecl, "80")>> >>

C16_Witness ==
    /\ op \in JclOps
    /\ submitParms.internalReaderRecfm = Undefined
    /\ submitParms.internalReaderLrecl = "133"
    /\ Len(calls) = 1 /\ calls[1].api = "PUT" /\ calls[1].ok
    /\ HeaderValues(calls[1].req, "X-IBM-Intrdr-Recfm") = << <<"X-IBM-Intrdr-Recfm", "F">> >>
    /\ HeaderValues(calls[1].req, "X-IBM-Intrdr-Lrecl") = << <<"X-IBM-Intrdr-Lrecl", "133">> >>

\* C16, second witness of the default case: neither override, F and 80 are sent
C16_DefaultsSent ==
    /\ op \in JclOps
    /\ submitParms.internalReaderRecfm = Undefined
    /\ submitParms.internalReaderLrecl = Undefined
    /\ Len(calls) = 1 /\ calls[1].api = "PUT"
    /\ calls[1].req.headers[3] = <<"X-IBM-Intrdr-Lrecl", "80">>
    /\ calls[1].req.headers[4] = <<"X-IBM-Intrdr-Recfm", "F">>

\* the entry points C17 names
LiteralJclEntryPoints == {"submitJcl", "submitJclCommon", "submitJclNotify", "submitJclNotifyCommon"}
DataSetEntryPoints == {"submitJob", "submitJobCommon", "submitJobNotifyCommon"}

\* C17 as stated: on the literal-JCL entry points a null, undefined or empty JCL text,
\* and on the data-set entry points an absent data-set reference, is rejected with
\* MissingParameter and the intake request is never sent.
C17_SubmissionValidation ==
    ( \/ op \in LiteralJclEntryPoints /\ submitParms.jcl \in {Null, Undefined, ""}
      \/ op \in DataSetEntryPoints /\ isNullOrUndefined(submitParms.jobDataSet) ) =>
        /\ Done
        /\ FailedWith("MissingParameter")
        /\ CallsTo("PUT") = <<>>

\* C17, the part the code keeps: null and undefined JCL text and an absent data-set
\* reference are rejected before the intake request (the empty string is not)
C17_NullAndUndefinedRejected ==
    ( \/ op \in LiteralJclEntryPoints /\ submitParms.jcl \in {Null, Undefined}
      \/ op \in DataSetEntryPoints /\ isNullOrUndefined(submitParms.jobDataSet) ) =>
        /\ Done
        /\ FailedWith("MissingParameter")
        /\ CallsTo("PUT") = <<>>

\* C17, the failing input: submitJcl(session, "") has sent its intake request
C17_EmptyJclSent ==
    /\ op = "submitJcl" /\ submitParms.jcl = ""
    /\ Len(calls) = 1 /\ calls[1].api = "PUT" /\ calls[1].ok
    /\ calls[1].req.body = <<"">>
    /\ Done /\ result.kind = "job"

\* a content-retrieval call (spool listing, content fetch or bulk download) was issued
RetrievalStarted == ListCalls # <<>> \/ ContentCalls # <<>> \/ DownloadCalls # <<>>

\* the poll of checkSubmitOptions reached its target
PollSucceeded == \E i \in DOMAIN StatusCalls : Hit(i)

\* C18 as stated (its state part): with a progress sink supplied, once
\* checkSubmitOptions has started a status poll the sink shows at least 30% and a
\* status message; it shows 70% only after the poll succeeded, and it does so before
\* any content-retrieval call.
C18_ProgressReported ==
    (op \in OptionOps /\ parms.task) =>
        /\ waitParms # <<>> =>
              /\ task.percentComplete >= THIRTY_PERCENT
              /\ task.statusMessage # <<>>
        /\ task.percentComplete \in {0, THIRTY_PERCENT, SEVENTY_PERCENT}
        /\ task.percentComplete = SEVENTY_PERCENT => PollSucceeded
        /\ RetrievalStarted => task.percentComplete = SEVENTY_PERCENT

\* C18, the part the code keeps: the same, for the polls that wait for OUTPUT
C18_ProgressReportedForOutput ==
    (op \in OptionOps /\ parms.task /\ ~ActiveSet) =>
        /\ waitParms # <<>> =>
              /\ task.percentComplete >= THIRTY_PERCENT
              /\ task.statusMessage # <<>>
        /\ task.percentComplete \in {0, THIRTY_PERCENT, SEVENTY_PERCENT}
        /\ task.percentComplete = SEVENTY_PERCENT => PollSucceeded
        /\ RetrievalStarted => task.percentComplete = SEVENTY_PERCENT

\* C18, the part the code keeps: percent-complete never decreases
C18_PercentNeverDecreases ==
    [][task'.percentComplete >= task.percentComplete]_vars

\* C18, the failing input: a poll for ACTIVE has run with a sink that was never told
C18_ActivePollSilent ==
    /\ op = "checkSubmitOptions" /\ parms.task /\ ActiveSet
    /\ StatusCalls # <<>>
    /\ task = NoProgress

\* ------------------------------------------------ claims on processCmd
\* a properties response that reports automationStatus.currentStepName null or absent
ReportsNoCurrentStep(c) ==
    /\ c.ok
    /\ c.res.automationStatus # <<>>
    /\ c.res.automationStatus[1].currentStepName \in {Null, Undefined}

StartCalls(i) == SelectSeq(wcalls[i], LAMBDA c : c.api = "startWorkflow")

\* C12: with wait set, processCmd queries the workflow properties again after every
\* response that does not report automationStatus.currentStepName null or absent; the
\* first response that does is the last query it issues, and processCmd completes on it,
\* reporting "Complete." for the status "complete" and "Fail." for any other.
C12_WaitLoopEndsOnFirstTerminal ==
    \A i \in Invocations :
        LET q == PropertiesQueries(i) IN
        /\ \A k \in DOMAIN q :
              ReportsNoCurrentStep(q[k]) =>
                  /\ k = Len(q)
                  /\ wpc[i] = "fulfilled"
                  /\ inflight[i] = NoCall
                  /\ dataObj[i] =
                        <<IF q[k].res.statusName = "complete" THEN "Complete." ELSE "Fail.">>
        /\ (q # <<>> /\ \A k \in DOMAIN q : q[k].ok /\ ~ReportsNoCurrentStep(q[k])) =>
              /\ wpc[i] = "getWorkflowProperties"
              /\ inflight[i].api = "getWorkflowProperties"
              /\ dataObj[i] = <<>>

\* C12, the case: a second query followed a response that named a current step (or had
\* no automationStatus), and its response ended the loop
C12_Witness ==
    \E i \in Invocations :
        LET q == PropertiesQueries(i) IN
        /\ Len(q) = 2
        /\ ~ReportsNoCurrentStep(q[1])
        /\ ReportsNoCurrentStep(q[2])
        /\ wpc[i] = "fulfilled"

\* C13 as stated, for processCmd: when the start-workflow call fails with e, it was made
\* once and the caller observes exactly e.
C13_StartFailureUnchanged ==
    \A i \in Invocations :
        \A k \in DOMAIN wcalls[i] :
            (wcalls[i][k].api = "startWorkflow" /\ ~wcalls[i][k].ok) =>
                /\ Len(StartCalls(i)) = 1
                /\ wpc[i] = "rejected"
                /\ thrown[i] = wcalls[i][k].res

\* C13, the part processCmd keeps: a failed start call is not retried, no other call
\* follows it, and the invocation rejects
C13_StartFailureEndsInvocation ==
    \A i \in Invocations :
        \A k \in DOMAIN wcalls[i] :
            (wcalls[i][k].api = "startWorkflow" /\ ~wcalls[i][k].ok) =>
                /\ Len(wcalls[i]) = 1
                /\ wpc[i] = "rejected"
                /\ inflight[i] = NoCall

\* C13, the failing input: the caller is handed the text "Start workflow: " + e
C13_StartFailureWrapped ==
    \E i \in Invocations :
        /\ wpc[i] = "rejected"
        /\ ~wcalls[i][1].ok
        /\ thrown[i] = <<"Start workflow: ">> \o wcalls[i][1].res

\* C13, the part SubmitJobs keeps: a failed remote call is the last call made, and the
\* entry point rejects with its failure
C13_SubmitJobsFailureUnchanged ==
    \A k \in DOMAIN calls :
        ~calls[k].ok =>
            /\ k = Len(calls)
            /\ Done
            /\ result.kind = "error"
            /\ result.value.error = "RemoteCallFailure"

\* C14 as stated: each invocation starts and polls only the workflow key of its own
\* params and takes the wait / no-wait branch of its own params.
C14_NoInterference ==
    \A i \in Invocations :
        /\ \A k \in DOMAIN wcalls[i] : wcalls[i][k].req.workflowKey = params[i].workflowKey
        /\ wpc[i] # "idle" => inflight[i].req.workflowKey \in {Undefined, params[i].workflowKey}
        /\ (wpc[i] = "getWorkflowProperties" \/ PropertiesQueries(i) # <<>>) => params[i].wait
        /\ "Started." \in {dataObj[i][k] : k \in DOMAIN dataObj[i]} => ~params[i].wait

\* C14, the part the code keeps: the start call carries the invocation's own key
C14_StartsOwnWorkflow ==
    \A i \in Invocations :
        \A k \in DOMAIN wcalls[i] :
            wcalls[i][k].api = "startWorkflow" =>
                wcalls[i][k].req.workflowKey = params[i].workflowKey

\* C14, the failing input: an invocation without wait that polled the other's workflow
C14_PolledTheOthersWorkflow ==
    \E i \in Invocations :
        /\ ~params[i].wait
        /\ PropertiesQueries(i) # <<>>
        /\ PropertiesQueries(i)[1].req.workflowKey # params[i].workflowKey

\* ------------------------------------------------ claims on the remote shell
\* the chunks of the data events still in the channel
RECURSIVE DataOf(_)
DataOf(events) ==
    IF events = <<>> THEN <<>>
    ELSE IF Head(events).event = "data"
         THEN <<Head(events).data>> \o DataOf(Tail(events))
         ELSE DataOf(Tail(events))

Twin(p) == [p EXCEPT !.task = ~p.task]

\* where the run stands once its silent step after the poll is taken
Settled_pc == IF pc = "polled" THEN RunPolled(parms, Run(pc, <<>>, 0, job, <<>>, <<>>,
                                                     task, <<>>, result)).pc
              ELSE pc

\* C19, the model's premise: replaying checkSubmitOptions on the answers the remote
\* system gave reproduces the run itself, its calls, its sink and its result.
C19_ReplayIsTheRun ==
    op = "checkSubmitOptions" =>
        LET r == Replay(parms, responseJobInfo, calls) IN
        /\ r.calls = calls
        /\ r.result = IF pc = "polled" /\ r.pc = "done" THEN r.result ELSE result
        /\ r.pc = Settled_pc
        /\ pc # "polled" => r.task = task

\* C19: the run of checkSubmitOptions that differs only in whether a progress sink is
\* supplied, given the same job and the same answers of the remote system, issues the
\* same remote calls with the same arguments in the same order and ends with the same
\* result or the same error.
C19_ProgressIsObservational ==
    op = "checkSubmitOptions" =>
        LET own == Replay(parms, responseJobInfo, calls)
            twin == Replay(Twin(parms), responseJobInfo, calls)
        IN
        /\ own.calls = calls
        /\ twin.calls = calls
        /\ twin.pc = own.pc
        /\ twin.result = own.result
        /\ Done => twin.result = result

\* C19, the case: a run with a sink that reported 70% fetched spool content and ended,
\* while its twin reported nothing
C19_Witness ==
    /\ op = "checkSubmitOptions" /\ Done
    /\ parms.task
    /\ task.percentComplete = SEVENTY_PERCENT
    /\ ContentCalls # <<>>
    /\ result.kind = "spool"
    /\ Replay(Twin(parms), responseJobInfo, calls).task = NoProgress
    /\ Replay(Twin(parms), responseJobInfo, calls).result = result

\* ------------------------------------------- claims on the response object
\* the start-workflow call of invocation i failed
StartFailed(i) == wcalls[i] # <<>> /\ ~wcalls[i][1].ok

C21_StartedReached ==
    /\ wpc["A"] = "fulfilled" /\ ~params["A"].wait /\ dataObj["A"] = <<"Started.">>

C21_StartFailedReached ==
    /\ StartFailed("A") /\ wpc["A"] = "rejected" /\ dataObj["A"] = <<>>

\* ------------------------------------------------ claims on the single poll
\* C22: in every execution of checkSubmitOptions the status poll is invoked at most
\* once; its target is ACTIVE iff waitForActive is set and OUTPUT otherwise; it is for
\* the jobname and jobid of the submitted job and carries the caller's maxAttempts and
\* watchDelay, and every status query asks for that job; spool content fetches and
\* the bulk download never both occur.
C22_OnePollPerCall ==
    op \in OptionOps =>
        /\ Len(waitParms) <= 1
        /\ \A k \in DOMAIN waitParms :
              /\ waitParms[k].status = "ACTIVE" <=> parms.waitForActive
              /\ waitParms[k].status = "OUTPUT" <=> ~parms.waitForActive
              /\ waitParms[k].jobname = responseJobInfo.jobname
              /\ waitParms[k].jobid = responseJobInfo.jobid
              /\ waitParms[k].maxAttempts = parms.maxAttempts
              /\ waitParms[k].watchDelay = parms.watchDelay
        /\ \A k \in DOMAIN StatusCalls :
              /\ StatusCalls[k].req.jobname = responseJobInfo.jobname
              /\ StatusCalls[k].req.jobid = responseJobInfo.jobid
        /\ StatusCalls # <<>> => Len(waitParms) = 1
        /\ ~(ContentCalls # <<>> /\ DownloadCalls # <<>>)
        /\ ~(ListCalls # <<>> /\ DownloadCalls # <<>>)

\* C22, the case: with every option set and the caller's maxAttempts and watchDelay,
\* the call has ended after one poll for ACTIVE and no retrieval
C22_Witness ==
    /\ op = "checkSubmitOptions" /\ Done
    /\ parms.waitForActive /\ parms.viewAllSpoolContent /\ parms.waitForOutput
    /\ Truthy(parms.directory)
    /\ parms.maxAttempts # NoNumber /\ parms.watchDelay # NoNumber
    /\ Len(waitParms) = 1
    /\ waitParms[1].status = "ACTIVE"
    /\ StatusCalls # <<>>
    /\ result.kind = "job"

\* C22, the cases beside it: content was fetched after a poll for OUTPUT with a
\* directory set too, and a bulk download followed a poll for OUTPUT
C22_ContentFetched ==
    /\ op \in OptionOps /\ Done
    /\ Truthy(parms.directory) /\ ContentCalls # <<>> /\ waitParms[1].status = "OUTPUT"

C22_Downloaded ==
    /\ op \in OptionOps /\ Done
    /\ DownloadCalls # <<>> /\ waitParms[1].status = "OUTPUT"
    /\ parms.watchDelay # NoNumber

====
